---- MODULE Spec2Model ----
(***************************************************************************)
(* 3x3x3 tic-tac-toe: the board (Board.js), the game controller (Game.js)  *)
(* and the player bookkeeping (Player.js) as a state machine.              *)
(*                                                                         *)
(* A cell is the triple <<x, y, z>> of its 0-based grid coordinates.  The  *)
(* occupant of a cell is "null", "X" or "O", as in Board.board[x][y][z].   *)
(***************************************************************************)
EXTENDS Integers, Sequences, FiniteSets, TLC

(***************************************************************************)
(* Program constants                                                       *)
(***************************************************************************)
gridSize == 3

Coords == 0 .. (gridSize - 1)

Cells == Coords \X Coords \X Coords

NumCells == gridSize * gridSize * gridSize

Markers == {"X", "O"}

NoHit == <<-1, -1, -1>>

(***************************************************************************)
(* Bounds of the model                                                     *)
(***************************************************************************)
\* cells left to the players' free choice after the scripted opening
FreeCells == 7

\* cells left free when Game.makeMove is called directly
MoveFreeCells == 4

\* pieces on the board when Board.placePiece is called with any marker
MaxPieces == 3

\* setTimeout callbacks that may be pending at once
MaxTimers == 1

\* fingers on the screen at once
MaxTouches == 2

\* the highest count Player.addScore is let to reach
MaxScore == 2

\* cells left to free choice when score calls interleave with the game
ScoreFreeCells == 2

(***************************************************************************)
(* The order in which the cells are selected in the scripted opening: the  *)
(* first 25 placements (X first, then alternating) complete no line.       *)
(***************************************************************************)
Script ==
    << <<0, 0, 1>>, <<0, 1, 1>>, <<0, 1, 2>>, <<0, 2, 1>>,
       <<0, 2, 0>>, <<1, 0, 1>>, <<1, 0, 0>>, <<1, 1, 2>>,
       <<1, 0, 2>>, <<1, 2, 0>>, <<1, 1, 0>>, <<2, 0, 0>>,
       <<1, 2, 1>>, <<2, 1, 0>>, <<2, 0, 1>>, <<2, 2, 1>>,
       <<2, 1, 1>>, <<2, 2, 2>>, <<2, 1, 2>>, <<1, 1, 1>>,
       <<0, 0, 2>>, <<1, 2, 2>>, <<0, 1, 0>>, <<2, 0, 2>>,
       <<2, 2, 0>>, <<0, 0, 0>>, <<0, 2, 2>> >>

VARIABLES
    board,          \* Board.board: occupant of every cell
    pieces,         \* Board.pieces.length: rendered piece meshes
    animating,      \* some piece of Board.pieces has scale.x < 1
    currentPlayer,  \* Game.currentPlayer
    gameStatus,     \* Game.gameStatus: "playing", "won" or "draw"
    player,         \* Game.player: the Player object (currentPlayer, score)
    mouseDown,      \* Game.mouseDown
    touchDown,      \* Game.touchDown
    wasDragging,    \* Game.wasDragging
    isPinching,     \* Game.isPinching
    timers,         \* pending setTimeout callbacks that clear wasDragging
    touches,        \* fingers currently on the canvas (event.touches.length)
    last,           \* the most recent call: entry point, makeMove/placePiece
                    \* arguments, the piece placePiece returned, status before
    drag,           \* history of the mouse gesture: "idle", "down" (button
                    \* pressed), "dragging" (moved beyond dragThreshold),
                    \* "dragEnd" / "pressEnd" (button released, click due)
    pinch           \* history of the touch gesture: two fingers have been
                    \* on the canvas and not all fingers have lifted since

boardVars == <<board, pieces, animating>>
gameVars == <<currentPlayer, gameStatus>>
inputVars == <<mouseDown, touchDown, wasDragging, isPinching, timers, touches>>
gestureVars == <<drag, pinch>>
vars == <<board, pieces, animating, currentPlayer, gameStatus, player,
          mouseDown, touchDown, wasDragging, isPinching, timers, touches, last,
          drag, pinch>>

(***************************************************************************)
(* Board.js                                                                *)
(***************************************************************************)
EmptyBoard == [c \in Cells |-> "null"]

isCellEmpty(b, cell) == b[cell] = "null"

\* placePiece without the isCellEmpty guard
placePieceOverwrite(b, n, cell, p) ==
    [board |-> [b EXCEPT ![cell] = p], pieces |-> n + 1, piece |-> p]

\* what placePiece leaves behind: the board, the number of pieces, and the
\* returned piece (the marker of the new mesh, or "null")
placePiece(b, n, cell, p) ==
    IF ~isCellEmpty(b, cell)
    THEN [board |-> b, pieces |-> n, piece |-> "null"]
    ELSE [board |-> [b EXCEPT ![cell] = p], pieces |-> n + 1, piece |-> p]

directions ==
    << << <<1, 0, 0>>, <<-1, 0, 0>> >>,
       << <<0, 1, 0>>, <<0, -1, 0>> >>,
       << <<0, 0, 1>>, <<0, 0, -1>> >>,
       << <<1, 1, 0>>, <<-1, -1, 0>> >>,
       << <<1, -1, 0>>, <<-1, 1, 0>> >>,
       << <<1, 0, 1>>, <<-1, 0, -1>> >>,
       << <<1, 0, -1>>, <<-1, 0, 1>> >>,
       << <<0, 1, 1>>, <<0, -1, -1>> >>,
       << <<0, 1, -1>>, <<0, -1, 1>> >>,
       << <<1, 1, 1>>, <<-1, -1, -1>> >>,
       << <<1, 1, -1>>, <<-1, -1, 1>> >>,
       << <<1, -1, 1>>, <<-1, 1, -1>> >>,
       << <<-1, 1, 1>>, <<1, -1, -1>> >> >>

\* the while loop of countInDirection, entered at (newX, newY, newZ)
RECURSIVE countLoop(_, _, _, _, _, _)
countLoop(b, newX, newY, newZ, direction, p) ==
    IF /\ newX >= 0 /\ newX < gridSize
       /\ newY >= 0 /\ newY < gridSize
       /\ newZ >= 0 /\ newZ < gridSize
       /\ b[<<newX, newY, newZ>>] = p
    THEN 1 + countLoop(b, newX + direction[1], newY + direction[2],
                       newZ + direction[3], direction, p)
    ELSE 0

\* countInDirection with an if for the while: it looks one cell ahead only
countInDirectionOneStep(b, x, y, z, direction, p) ==
    IF /\ x + direction[1] >= 0 /\ x + direction[1] < gridSize
       /\ y + direction[2] >= 0 /\ y + direction[2] < gridSize
       /\ z + direction[3] >= 0 /\ z + direction[3] < gridSize
       /\ b[<<x + direction[1], y + direction[2], z + direction[3]>>] = p
    THEN 1
    ELSE 0

countInDirection(b, x, y, z, direction, p) ==
    countLoop(b, x + direction[1], y + direction[2], z + direction[3],
              direction, p)

checkWin(b, cell, p) ==
    \E i \in 1 .. Len(directions) :
        1 + countInDirection(b, cell[1], cell[2], cell[3], directions[i][1], p)
          + countInDirection(b, cell[1], cell[2], cell[3], directions[i][2], p)
        >= 3

\* isBoardFull with the x loop one plane short
isBoardFullShort(b) ==
    \A x \in 0 .. (gridSize - 2), y \in 0 .. (gridSize - 1),
       z \in 0 .. (gridSize - 1) : b[<<x, y, z>>] # "null"

isBoardFull(b) ==
    \A x \in 0 .. (gridSize - 1), y \in 0 .. (gridSize - 1),
       z \in 0 .. (gridSize - 1) : b[<<x, y, z>>] # "null"

\* Board.reset that empties the cells and keeps the list of pieces
BoardResetKeepsPieces ==
    /\ board' = [c \in Cells |-> "null"]
    /\ pieces' = pieces
    /\ animating' = FALSE

\* Board.reset
BoardReset ==
    /\ board' = [c \in Cells |-> "null"]
    /\ pieces' = 0
    /\ animating' = FALSE

(***************************************************************************)
(* Game.js                                                                 *)
(***************************************************************************)
Init ==
    /\ board = EmptyBoard
    /\ pieces = 0
    /\ animating = FALSE
    /\ currentPlayer = "X"
    /\ gameStatus = "playing"
    /\ player = [currentPlayer |-> "X", score |-> [X |-> 0, O |-> 0]]
    /\ mouseDown = FALSE
    /\ touchDown = FALSE
    /\ wasDragging = FALSE
    /\ isPinching = FALSE
    /\ timers = 0
    /\ touches = 0
    /\ last = [op |-> "init", cell |-> NoHit, marker |-> "none",
               piece |-> "none", before |-> "playing"]
    /\ drag = "idle"
    /\ pinch = FALSE

\* makeMove that switches the player before it returns from a win
makeMoveSwitchOnWin(cell) ==
    LET placed == placePiece(board, pieces, cell, currentPlayer)
    IN  /\ board' = placed.board
        /\ pieces' = placed.pieces
        /\ animating' = (animating \/ placed.piece # "null")
        /\ currentPlayer' = (IF currentPlayer = "X" THEN "O" ELSE "X")
        /\ IF checkWin(placed.board, cell, currentPlayer)
           THEN gameStatus' = "won"
           ELSE IF isBoardFull(placed.board)
           THEN gameStatus' = "draw"
           ELSE gameStatus' = gameStatus

\* makeMove with the draw check ahead of the win check
makeMoveDrawFirst(cell) ==
    LET placed == placePiece(board, pieces, cell, currentPlayer)
    IN  /\ board' = placed.board
        /\ pieces' = placed.pieces
        /\ animating' = (animating \/ placed.piece # "null")
        /\ IF isBoardFull(placed.board)
           THEN /\ gameStatus' = "draw"
                /\ currentPlayer' = currentPlayer
           ELSE IF checkWin(placed.board, cell, currentPlayer)
           THEN /\ gameStatus' = "won"
                /\ currentPlayer' = currentPlayer
           ELSE /\ currentPlayer' = (IF currentPlayer = "X" THEN "O" ELSE "X")
                /\ gameStatus' = gameStatus

\* makeMove that places the marker of the player who moves next
makeMovePlacesNext(cell) ==
    LET next == IF currentPlayer = "X" THEN "O" ELSE "X"
        placed == placePiece(board, pieces, cell, next)
    IN  /\ board' = placed.board
        /\ pieces' = placed.pieces
        /\ animating' = (animating \/ placed.piece # "null")
        /\ IF checkWin(placed.board, cell, next)
           THEN /\ gameStatus' = "won" /\ currentPlayer' = currentPlayer
           ELSE IF isBoardFull(placed.board)
           THEN /\ gameStatus' = "draw" /\ currentPlayer' = currentPlayer
           ELSE /\ currentPlayer' = next
                /\ gameStatus' = gameStatus

\* makeMove that leaves the turn with the player who has just moved
makeMoveNoSwitch(cell) ==
    LET placed == placePiece(board, pieces, cell, currentPlayer)
    IN  /\ board' = placed.board
        /\ pieces' = placed.pieces
        /\ animating' = (animating \/ placed.piece # "null")
        /\ currentPlayer' = currentPlayer
        /\ gameStatus' = (IF checkWin(placed.board, cell, currentPlayer)
                          THEN "won"
                          ELSE IF isBoardFull(placed.board) THEN "draw"
                          ELSE gameStatus)

\* makeMove that finds the end of the game but does not record the status
makeMoveKeepsStatus(cell) ==
    LET placed == placePiece(board, pieces, cell, currentPlayer)
    IN  /\ board' = placed.board
        /\ pieces' = placed.pieces
        /\ animating' = (animating \/ placed.piece # "null")
        /\ gameStatus' = gameStatus
        /\ IF checkWin(placed.board, cell, currentPlayer)
           THEN currentPlayer' = currentPlayer
           ELSE IF isBoardFull(placed.board)
           THEN currentPlayer' = currentPlayer
           ELSE currentPlayer' = (IF currentPlayer = "X" THEN "O" ELSE "X")

\* Game.makeMove: board, pieces, status and turn after the call
makeMove(cell) ==
    LET placed == placePiece(board, pieces, cell, currentPlayer)
    IN  /\ board' = placed.board
        /\ pieces' = placed.pieces
        /\ animating' = (animating \/ placed.piece # "null")
        /\ IF checkWin(placed.board, cell, currentPlayer)
           THEN /\ gameStatus' = "won"
                /\ currentPlayer' = currentPlayer
           ELSE IF isBoardFull(placed.board)
           THEN /\ gameStatus' = "draw"
                /\ currentPlayer' = currentPlayer
           ELSE /\ currentPlayer' = (IF currentPlayer = "X" THEN "O" ELSE "X")
                /\ gameStatus' = gameStatus

\* the record of a call that reached makeMove(cell)
Moved(op, cell) ==
    [op |-> op, cell |-> cell, marker |-> currentPlayer,
     piece |-> placePiece(board, pieces, cell, currentPlayer).piece,
     before |-> gameStatus]

\* the record of a handler that returned without calling makeMove
Ignored(op) ==
    [op |-> op, cell |-> NoHit, marker |-> "none", piece |-> "none",
     before |-> gameStatus]

\* reset that leaves the turn with whoever had it
resetKeepPlayer ==
    /\ currentPlayer' = currentPlayer
    /\ gameStatus' = "playing"
    /\ BoardReset

\* Game.reset
reset ==
    /\ currentPlayer' = "X"
    /\ gameStatus' = "playing"
    /\ BoardReset

\* a reset button that also starts the counts again
ResetClickClearsScore ==
    /\ reset
    /\ last' = [op |-> "reset", cell |-> NoHit, marker |-> "none",
                piece |-> "none", before |-> gameStatus]
    /\ player' = [player EXCEPT !.score = [X |-> 0, O |-> 0]]
    /\ UNCHANGED inputVars

\* resetBtn / playAgainBtn click (main.js): game.reset()
ResetClick ==
    /\ reset
    /\ last' = [op |-> "reset", cell |-> NoHit, marker |-> "none",
                piece |-> "none", before |-> gameStatus]
    /\ UNCHANGED <<player, inputVars>>

\* the click listener without the gameStatus test
ClickAnyStatus(hit) ==
    /\ IF wasDragging
       THEN /\ UNCHANGED <<boardVars, gameVars>>
            /\ last' = Ignored("click")
       ELSE IF hit # NoHit /\ isCellEmpty(board, hit)
       THEN /\ makeMove(hit)
            /\ last' = Moved("click", hit)
       ELSE /\ UNCHANGED <<boardVars, gameVars>>
            /\ last' = Ignored("click")
    /\ UNCHANGED <<player, inputVars>>

\* "click" listener of setupClickDetection; hit is the cell of the first
\* intersected object, NoHit when the ray intersects none
Click(hit) ==
    /\ IF gameStatus # "playing" \/ wasDragging
       THEN /\ UNCHANGED <<boardVars, gameVars>>
            /\ last' = Ignored("click")
       ELSE IF hit # NoHit /\ isCellEmpty(board, hit)
       THEN /\ makeMove(hit)
            /\ last' = Moved("click", hit)
       ELSE /\ UNCHANGED <<boardVars, gameVars>>
            /\ last' = Ignored("click")
    /\ UNCHANGED <<player, inputVars>>

\* "touchend" listener of setupTouchControls with handleTouchCellSelection;
\* changed is event.changedTouches.length, quick is
\* Date.now() - touchStartTime < touchThreshold
TouchEnd(changed, quick, hit) ==
    /\ changed <= touches
    /\ wasDragging => timers < MaxTimers
    /\ touches' = touches - changed
    /\ IF /\ changed = 1 /\ ~wasDragging /\ ~isPinching
          /\ quick /\ gameStatus = "playing"
          /\ hit # NoHit /\ isCellEmpty(board, hit)
       THEN /\ makeMove(hit)
            /\ last' = Moved("touchend", hit)
       ELSE /\ UNCHANGED <<boardVars, gameVars>>
            /\ last' = Ignored("touchend")
    /\ touchDown' = FALSE
    /\ isPinching' = FALSE
    /\ timers' = IF wasDragging THEN timers + 1 ELSE timers
    /\ UNCHANGED <<player, mouseDown, wasDragging>>

\* "mousedown" listener of setupCameraControls
MouseDown ==
    /\ mouseDown' = TRUE
    /\ wasDragging' = FALSE
    /\ UNCHANGED <<boardVars, gameVars, player, touchDown, isPinching,
                   timers, touches, last>>

\* "mouseup" listener of setupCameraControls
MouseUp ==
    /\ wasDragging => timers < MaxTimers
    /\ mouseDown' = FALSE
    /\ timers' = IF wasDragging THEN timers + 1 ELSE timers
    /\ UNCHANGED <<boardVars, gameVars, player, touchDown, wasDragging,
                   isPinching, touches, last>>

\* "mousemove" listener of setupCameraControls; far is
\* totalMovement > dragThreshold
MouseMove(far) ==
    /\ mouseDown
    /\ wasDragging' = (IF far THEN TRUE ELSE wasDragging)
    /\ UNCHANGED <<boardVars, gameVars, player, mouseDown, touchDown,
                   isPinching, timers, touches, last>>

\* the setTimeout callback of the mouseup and touchend listeners
TimerFire ==
    /\ timers > 0
    /\ timers' = timers - 1
    /\ wasDragging' = FALSE
    /\ UNCHANGED <<boardVars, gameVars, player, mouseDown, touchDown,
                   isPinching, touches, last>>

\* "touchstart" listener of setupTouchControls; added fingers touch down
TouchStart(added) ==
    /\ touches + added <= MaxTouches
    /\ touches' = touches + added
    /\ IF touches' = 1
       THEN /\ touchDown' = TRUE
            /\ wasDragging' = FALSE
            /\ UNCHANGED isPinching
       ELSE IF touches' = 2
       THEN /\ isPinching' = TRUE
            /\ touchDown' = FALSE
            /\ UNCHANGED wasDragging
       ELSE UNCHANGED <<touchDown, wasDragging, isPinching>>
    /\ UNCHANGED <<boardVars, gameVars, player, mouseDown, timers, last>>

\* "touchmove" listener of setupTouchControls
TouchMove(far) ==
    /\ touches >= 1
    /\ wasDragging' = (IF touches = 1 /\ touchDown /\ ~isPinching /\ far
                       THEN TRUE ELSE wasDragging)
    /\ UNCHANGED <<boardVars, gameVars, player, mouseDown, touchDown,
                   isPinching, timers, touches, last>>

(***************************************************************************)
(* Direct calls of the public methods                                      *)
(***************************************************************************)
\* game.makeMove(cell) called by any caller, in any status
CallMakeMove(cell) ==
    /\ makeMove(cell)
    /\ last' = Moved("makeMove", cell)
    /\ UNCHANGED <<player, inputVars>>

\* board.placePiece(cell, p) called by any caller
CallPlacePiece(cell, p) ==
    LET placed == placePiece(board, pieces, cell, p)
    IN  /\ board' = placed.board
        /\ pieces' = placed.pieces
        /\ animating' = (animating \/ placed.piece # "null")
        /\ last' = [op |-> "placePiece", cell |-> cell, marker |-> p,
                    piece |-> placed.piece, before |-> gameStatus]
        /\ UNCHANGED <<gameVars, player, inputVars>>

\* board.reset() called by any caller
CallBoardReset ==
    /\ BoardReset
    /\ last' = [op |-> "boardReset", cell |-> NoHit, marker |-> "none",
                piece |-> "none", before |-> gameStatus]
    /\ UNCHANGED <<gameVars, player, inputVars>>

(***************************************************************************)
(* Player                                                                  *)
(***************************************************************************)
\* addScore that counts every call for X
addScoreAlwaysX(score, v) == [score EXCEPT !["X"] = @ + 1]

\* Player.addScore: counts only for a key the score object owns
addScore(score, v) ==
    IF v \in DOMAIN score THEN [score EXCEPT ![v] = @ + 1] ELSE score

\* Player.resetScore
resetScore == [X |-> 0, O |-> 0]

\* Player.switchPlayer
switchPlayer(p) == IF p = "X" THEN "O" ELSE "X"

\* what a caller may hand to addScore: the two markers, a lower-case
\* marker, a name every object inherits, and the missing argument
ScoreArgs == Markers \cup {"x", "toString", "undefined"}

\* player.addScore(v) called by any caller
CallAddScore(v) ==
    /\ \A p \in Markers : player.score[p] < MaxScore
    /\ player' = [player EXCEPT !.score = addScore(player.score, v)]
    /\ last' = [op |-> "addScore", cell |-> NoHit, marker |-> v,
                piece |-> "none", before |-> gameStatus]
    /\ UNCHANGED <<boardVars, gameVars, inputVars>>

\* player.resetScore() called by any caller
CallResetScore ==
    /\ player' = [player EXCEPT !.score = resetScore]
    /\ last' = [op |-> "resetScore", cell |-> NoHit, marker |-> "none",
                piece |-> "none", before |-> gameStatus]
    /\ UNCHANGED <<boardVars, gameVars, inputVars>>

\* player.switchPlayer() called by any caller
CallSwitchPlayer ==
    /\ player' = [player EXCEPT !.currentPlayer = switchPlayer(@)]
    /\ last' = [op |-> "switchPlayer", cell |-> NoHit, marker |-> "none",
                piece |-> "none", before |-> gameStatus]
    /\ UNCHANGED <<boardVars, gameVars, inputVars>>

(***************************************************************************)
(* Frames                                                                  *)
(***************************************************************************)
\* a frame callback that opens the game again once the pieces have grown
AnimateUnlocks ==
    /\ animating' \in (IF animating THEN BOOLEAN ELSE {FALSE})
    /\ gameStatus' = (IF animating /\ ~animating' THEN "playing" ELSE gameStatus)
    /\ last' = Ignored("animate")
    /\ UNCHANGED <<board, pieces, currentPlayer, player, inputVars>>

\* Game.animate: one frame. Board.animate grows every piece whose scale is
\* below 1 by a tenth; after it either some piece is still below 1 or none
\* is. The renderer then draws the scene.
Animate ==
    /\ animating' \in (IF animating THEN BOOLEAN ELSE {FALSE})
    /\ last' = Ignored("animate")
    /\ UNCHANGED <<board, pieces, gameVars, player, inputVars>>

(***************************************************************************)
(* Inputs                                                                  *)
(***************************************************************************)
Occupied(b) == {c \in Cells : b[c] # "null"}

\* the empty cells a caller selects next: the scripted one while more than
\* free cells are empty, any cell afterwards
Selectable(free) ==
    IF Cardinality(Occupied(board)) < NumCells - free
    THEN {Script[Cardinality(Occupied(board)) + 1]}
    ELSE Cells \ Occupied(board)

\* what a pointer or a tap can hit: a selectable empty cell, the cell the
\* opening selects first (occupied from then on), or no cell at all
Hits(free) == Selectable(free) \cup {Script[1], NoHit}

\* the marker of the caller that places pieces in turn, X first
Turn == IF Cardinality(Occupied(board)) % 2 = 0 THEN "X" ELSE "O"

(***************************************************************************)
(* Specifications                                                          *)
(***************************************************************************)
\* a step that records no gesture history
NoHistory == UNCHANGED gestureVars

\* the game as the page drives it: pointer and touch events, reset button
Next ==
    \/ NoHistory /\ \E hit \in Hits(FreeCells) : Click(hit)
    \/ NoHistory /\ \E changed \in 1 .. MaxTouches, quick \in BOOLEAN,
          hit \in Hits(FreeCells) : TouchEnd(changed, quick, hit)
    \/ NoHistory /\ ResetClick
    \/ NoHistory /\ MouseDown
    \/ NoHistory /\ MouseUp
    \/ NoHistory /\ \E far \in BOOLEAN : MouseMove(far)
    \/ NoHistory /\ TimerFire
    \/ NoHistory /\ \E added \in 1 .. MaxTouches : TouchStart(added)
    \/ NoHistory /\ \E far \in BOOLEAN : TouchMove(far)

Spec == Init /\ [][Next]_vars

\* Game.makeMove and Game.reset called directly
NextMove ==
    \/ NoHistory /\ \E cell \in Selectable(MoveFreeCells) : CallMakeMove(cell)
    \/ NoHistory /\ \E cell \in Occupied(board) :
           /\ Cardinality(Occupied(board)) >= NumCells - MoveFreeCells
           /\ CallMakeMove(cell)
    \/ NoHistory /\ ResetClick

SpecMove == Init /\ [][NextMove]_vars

\* Board.placePiece called with any marker on any empty cell
NextBoard ==
    \/ NoHistory /\ \E cell \in Cells \ Occupied(board), p \in Markers :
           /\ pieces < MaxPieces
           /\ CallPlacePiece(cell, p)
    \/ NoHistory /\ CallBoardReset

SpecBoard == Init /\ [][NextBoard]_vars

\* Board.placePiece called in turn on empty cells, and on occupied cells
NextFill ==
    \/ NoHistory /\ \E cell \in Selectable(FreeCells) : CallPlacePiece(cell, Turn)
    \/ NoHistory /\ \E cell \in Occupied(board), p \in Markers : CallPlacePiece(cell, p)
    \/ NoHistory /\ CallBoardReset

SpecFill == Init /\ [][NextFill]_vars

\* the Player methods called directly, between moves and resets of a game
NextPlayer ==
    \/ NoHistory /\ \E v \in ScoreArgs : CallAddScore(v)
    \/ NoHistory /\ CallResetScore
    \/ NoHistory /\ CallSwitchPlayer
    \/ NoHistory /\ \E hit \in Selectable(ScoreFreeCells) : Click(hit)
    \/ NoHistory /\ ResetClick
    \/ NoHistory /\ CallBoardReset

SpecPlayer == Init /\ [][NextPlayer]_vars

\* frame callbacks between the clicks, the taps and the resets of a game
NextFrames ==
    \/ NoHistory /\ Animate
    \/ NoHistory /\ \E hit \in Hits(FreeCells) : Click(hit)
    \/ NoHistory /\ \E added \in 1 .. MaxTouches : TouchStart(added)
    \/ NoHistory /\ \E changed \in 1 .. MaxTouches, quick \in BOOLEAN,
          hit \in Hits(FreeCells) : TouchEnd(changed, quick, hit)
    \/ NoHistory /\ ResetClick

SpecFrames == Init /\ [][NextFrames]_vars

\* a click on an empty cell
PlayClick == NoHistory /\ \E hit \in Selectable(FreeCells) : Click(hit)

\* games played to their end one after the other: valid selections keep
\* arriving, and the board is reset once a game is over
NextPlay ==
    \/ PlayClick
    \/ NoHistory /\ gameStatus # "playing" /\ ResetClick

SpecPlay == Init /\ [][NextPlay]_vars /\ WF_vars(PlayClick)

\* mouse gestures on the canvas, one after the other: press, moves, release,
\* and the click the browser dispatches right after the release, before any
\* timer callback can run; timer callbacks run at any other moment
NextDrag ==
    \/ /\ drag = "idle"
       /\ MouseDown
       /\ drag' = "down"
       /\ UNCHANGED pinch
    \/ /\ drag \in {"down", "dragging"}
       /\ \E far \in BOOLEAN :
              /\ MouseMove(far)
              /\ drag' = (IF far THEN "dragging" ELSE drag)
       /\ UNCHANGED pinch
    \/ /\ drag \in {"down", "dragging"}
       /\ MouseUp
       /\ drag' = (IF drag = "dragging" THEN "dragEnd" ELSE "pressEnd")
       /\ UNCHANGED pinch
    \/ /\ drag \in {"dragEnd", "pressEnd"}
       /\ \E hit \in Hits(FreeCells) : Click(hit)
       /\ drag' = "idle"
       /\ UNCHANGED pinch
    \/ /\ drag \notin {"dragEnd", "pressEnd"}
       /\ TimerFire
       /\ NoHistory
    \/ /\ drag = "idle"
       /\ ResetClick
       /\ NoHistory

SpecDrag == Init /\ [][NextDrag]_vars

\* touch gestures on the canvas: fingers come down and lift in any order,
\* together or one after the other
NextPinch ==
    \/ /\ \E added \in 1 .. MaxTouches : TouchStart(added)
       /\ pinch' = (pinch \/ touches' = 2)
       /\ UNCHANGED drag
    \/ /\ \E far \in BOOLEAN : TouchMove(far)
       /\ NoHistory
    \/ /\ \E changed \in 1 .. MaxTouches, quick \in BOOLEAN,
             hit \in Hits(FreeCells) : TouchEnd(changed, quick, hit)
       /\ pinch' = (pinch /\ touches' > 0)
       /\ UNCHANGED drag
    \/ /\ TimerFire
       /\ NoHistory
    \/ /\ touches = 0
       /\ ResetClick
       /\ NoHistory

SpecPinch == Init /\ [][NextPinch]_vars

(***************************************************************************)
(* Lines of the grid, defined by geometry: three distinct cells, the       *)
(* second the midpoint of the first and the third.                         *)
(***************************************************************************)
Lines ==
    {{a, <<(a[1] + c[1]) \div 2, (a[2] + c[2]) \div 2, (a[3] + c[3]) \div 2>>, c} :
        <<a, c>> \in {ac \in Cells \X Cells :
                        /\ ac[1] # ac[2]
                        /\ \A i \in 1 .. 3 : (ac[1][i] + ac[2][i]) % 2 = 0}}

LinesAt == [c \in Cells |-> {l \in Lines : c \in l}]

\* some line through cell c is held by marker p in all three cells
LineThrough(b, c, p) == \E l \in LinesAt[c] : \A d \in l : b[d] = p

\* the last call was makeMove (direct, or from a listener) and placed a piece
PlacedByMove ==
    /\ last.op \in {"click", "touchend", "makeMove"}
    /\ last.piece \in Markers

(***************************************************************************)
(* C1: makeMove(cell) while Playing on an occupied cell is a no-op: board, *)
(* status and current player are unchanged.                                *)
(***************************************************************************)
C1_OccupiedCellIsNoOp ==
    [][(/\ last'.op = "makeMove"
        /\ last'.before = "playing"
        /\ board[last'.cell] # "null")
       => UNCHANGED <<board, gameStatus, currentPlayer>>]_vars

(***************************************************************************)
(* C2: makeMove(cell) while Won or Draw accepts no placement: board,       *)
(* status and current player are unchanged by every such call.             *)
(***************************************************************************)
C2_TerminalAcceptsNothing ==
    [][(/\ last'.op = "makeMove"
        /\ last'.before \in {"won", "draw"})
       => UNCHANGED <<board, gameStatus, currentPlayer>>]_vars

(***************************************************************************)
(* C3: for every cell c holding marker p, checkWin(c, p) is true exactly   *)
(* when some line of three collinear cells through c is wholly p's,        *)
(* whether c is an end or the middle of that line.                         *)
(***************************************************************************)
C3_CheckWinIffLine ==
    \A c \in Cells, p \in Markers :
        board[c] = p => (checkWin(board, c, p) <=> LineThrough(board, c, p))

\* the piece just placed is an end cell of a line it completed
C3_EndCellCompletesLine ==
    /\ last.op = "placePiece"
    /\ last.piece \in Markers
    /\ checkWin(board, last.cell, last.marker)
    /\ \E l \in LinesAt[last.cell] :
          /\ \A d \in l : board[d] = last.marker
          /\ \E a \in l, c \in l :
                /\ a # last.cell /\ c # last.cell /\ a # c
                /\ \E i \in 1 .. 3 : a[i] + last.cell[i] = 2 * c[i]
                                     /\ a[i] # c[i]

(***************************************************************************)
(* C4: a placement made while Playing that completes a line of the placing *)
(* player sets the status to Won and leaves the current player unswitched: *)
(* the current player after the move is the winner.                        *)
(***************************************************************************)
C4_WinKeepsPlayer ==
    (/\ PlacedByMove
     /\ last.before = "playing"
     /\ LineThrough(board, last.cell, last.marker))
    => (gameStatus = "won" /\ currentPlayer = last.marker)

\* O has just completed a line by a click or a tap
C4_OWinsByPlacement ==
    /\ PlacedByMove
    /\ last.before = "playing"
    /\ last.marker = "O"
    /\ LineThrough(board, last.cell, "O")
    /\ gameStatus = "won"

(***************************************************************************)
(* Filling the board: FillWithoutLine(b, i, e) holds when the empty cells  *)
(* of b from index i on can be given markers, cell by cell and leaving at  *)
(* most e of them empty, so that no cell completes a line of its marker    *)
(* and the markers number what alternating placements that start with X    *)
(* leave on the board.                                                     *)
(***************************************************************************)
CellAt(i) ==
    <<i \div (gridSize * gridSize), (i \div gridSize) % gridSize, i % gridSize>>

Count(b, p) == Cardinality({c \in Cells : b[c] = p})

RECURSIVE FillWithoutLine(_, _, _)
FillWithoutLine(b, i, e) ==
    IF i = NumCells
    THEN /\ Count(b, "X") - Count(b, "O") \in {0, 1}
         /\ Count(b, "X") - Count(b, "O") = (Count(b, "X") + Count(b, "O")) % 2
    ELSE IF b[CellAt(i)] # "null"
    THEN FillWithoutLine(b, i + 1, e)
    ELSE \/ \E p \in Markers :
               LET nb == [b EXCEPT ![CellAt(i)] = p]
               IN  /\ ~LineThrough(nb, CellAt(i), p)
                   /\ FillWithoutLine(nb, i + 1, e)
         \/ e > 0 /\ FillWithoutLine(b, i + 1, e - 1)

(***************************************************************************)
(* C5 as stated: from the empty board there is a sequence of alternating   *)
(* placements that fills all 27 cells with no placement completing a line  *)
(* (so that the 27th placement yields Draw).                               *)
(***************************************************************************)
C5_DrawFillExists == Init => FillWithoutLine(board, 0, 0)

(***************************************************************************)
(* C5 amended: no sequence of alternating placements from the empty board  *)
(* fills all 27 cells, or all but one, without completing a line (25       *)
(* placements can); a game played through the click and tap listeners is   *)
(* Won before the board is full, and its status is never Draw.             *)
(***************************************************************************)
C5_DrawUnreachable ==
    /\ gameStatus # "draw"
    /\ ~isBoardFull(board)
    /\ Init =>
          (/\ ~FillWithoutLine(board, 0, 0)
           /\ ~FillWithoutLine(board, 0, 1)
           /\ FillWithoutLine(board, 0, 2))

\* the longest game: 25 placements complete no line, the 26th wins
C5_WonOnLastButOneCell ==
    /\ PlacedByMove
    /\ pieces = NumCells - 1
    /\ gameStatus = "won"
    /\ LineThrough(board, last.cell, last.marker)

(***************************************************************************)
(* C6: a placement by makeMove that completes a line of the placing player *)
(* and fills the last empty cell sets the status to Won, not Draw; a       *)
(* placement leaves the status Draw only when the board is full and the    *)
(* placement completed no line.                                            *)
(***************************************************************************)
C6_WonBeforeDraw ==
    PlacedByMove =>
        /\ (isBoardFull(board) /\ LineThrough(board, last.cell, last.marker))
              => gameStatus = "won"
        /\ gameStatus = "draw"
              => (isBoardFull(board)
                  /\ ~LineThrough(board, last.cell, last.marker))

\* the placement into the last empty cell completed a line
C6_LastCellCompletesLine ==
    /\ PlacedByMove
    /\ isBoardFull(board)
    /\ LineThrough(board, last.cell, last.marker)
    /\ gameStatus = "won"

(***************************************************************************)
(* C7: after Game.reset(), from any state, every cell is empty, the status *)
(* is Playing and the current player is X.                                 *)
(***************************************************************************)
C7_ResetRestoresStart ==
    last.op = "reset" =>
        /\ \A c \in Cells : isCellEmpty(board, c)
        /\ gameStatus = "playing"
        /\ currentPlayer = "X"

\* reset was called in a won game
C7_ResetAfterWin ==
    /\ last.op = "reset"
    /\ last.before = "won"

(***************************************************************************)
(* C8: placePiece on an occupied cell, with the same or the other marker,  *)
(* returns null and leaves every cell's occupant and the rendered pieces   *)
(* as they were.                                                           *)
(***************************************************************************)
C8_PlaceOnOccupiedFails ==
    [][(/\ last'.op = "placePiece"
        /\ board[last'.cell] # "null")
       => (/\ last'.piece = "null"
           /\ board' = board
           /\ pieces' = pieces)]_vars

\* the last placePiece call offered the other marker to an occupied cell
C8_OtherMarkerRefused ==
    /\ last.op = "placePiece"
    /\ last.piece = "null"
    /\ board[last.cell] \in Markers
    /\ board[last.cell] # last.marker

(***************************************************************************)
(* C9: under alternating placements on distinct empty cells, isBoardFull() *)
(* is true exactly when 27 placements have succeeded since the last reset, *)
(* and false after any smaller number.                                     *)
(***************************************************************************)
C9_FullIffAllPlaced ==
    /\ isBoardFull(board) <=> (pieces = NumCells)
    /\ pieces = Cardinality(Occupied(board))

\* the 27th placement has just succeeded
C9_AllCellsPlaced ==
    /\ last.op = "placePiece"
    /\ last.piece \in Markers
    /\ pieces = NumCells
    /\ isBoardFull(board)

(***************************************************************************)
(* C10: a click or a touchend that arrives while the status is Won or Draw *)
(* changes neither the board, the status nor the current player; once      *)
(* reset() has run, selections place pieces again.                         *)
(***************************************************************************)
C10_TerminalInputIgnored ==
    [][(/\ last'.op \in {"click", "touchend"}
        /\ last'.before \in {"won", "draw"})
       => (/\ UNCHANGED <<board, pieces, gameStatus, currentPlayer>>
           /\ last'.piece = "none")]_vars

\* a tap arrived in a won game and was ignored
C10_TapAfterWin ==
    /\ last.op = "touchend"
    /\ last.before = "won"
    /\ last.piece = "none"
    /\ gameStatus = "won"

(***************************************************************************)
(* Score                                                                   *)
(***************************************************************************)
\* C11: the score counts the games won: every step of the game that ends a
\* game as Won raises the winner's count by exactly one.
C11_ScoreCountsWins ==
    [][(gameStatus # "won" /\ gameStatus' = "won")
          => player'.score[currentPlayer'] = player.score[currentPlayer'] + 1]_vars

\* C12: Game.reset and Board.reset leave both counts as they were; a step
\* that lowers a count is a resetScore call, which leaves both at 0.
C12_ResetKeepsScore ==
    [][/\ last'.op \in {"reset", "boardReset"} => player'.score = player.score
       /\ (\E p \in Markers : player'.score[p] < player.score[p])
             => last'.op = "resetScore" /\ player'.score = [X |-> 0, O |-> 0]]_vars

\* a game reset with counts on both sides still standing
C12_ResetWithScore ==
    /\ last.op = "reset"
    /\ last.before = "won"
    /\ player.score["X"] > 0
    /\ player.score["O"] > 0

\* C13: addScore(v) with v other than X and O leaves both counts unchanged;
\* with v = X or v = O it raises that count by one and leaves the other.
C13_AddScoreOnlyForMarker ==
    [][last'.op = "addScore" =>
          \A p \in Markers :
              player'.score[p] =
                  player.score[p] + (IF last'.marker = p THEN 1 ELSE 0)]_vars

\* an unrecognized value was handed to addScore after counts were made
C13_UnknownValueIgnored ==
    /\ last.op = "addScore"
    /\ last.marker \notin Markers
    /\ player.score["X"] > 0
    /\ player.score["O"] > 0

(***************************************************************************)
(* Occupancy                                                               *)
(***************************************************************************)
\* C14: under any makeMove call an occupied cell keeps its occupant, so the
\* number of occupied cells never decreases; only a reset empties cells.
C14_OccupancyMonotone ==
    [][/\ last'.op # "reset" =>
             /\ \A c \in Cells : board[c] # "null" => board'[c] = board[c]
             /\ Cardinality(Occupied(board')) >= Cardinality(Occupied(board))
       /\ (\E c \in Cells : board[c] # "null" /\ board'[c] = "null")
             => last'.op = "reset"]_vars

\* makeMove was called on a cell of the other player, who still holds it
C14_OccupantKept ==
    /\ last.op = "makeMove"
    /\ last.piece = "null"
    /\ last.marker \in Markers
    /\ board[last.cell] \in Markers \ {last.marker}

\* C15: a frame callback (Game.animate with Board.animate) leaves the
\* occupancy of the board, the game status and the current player unchanged,
\* wherever it falls between the input events.
C15_FrameKeepsGameState ==
    [][last'.op = "animate" =>
          /\ board' = board
          /\ pieces' = pieces
          /\ gameStatus' = gameStatus
          /\ currentPlayer' = currentPlayer]_vars

\* frames ran until the pieces of a won game had grown to full size
C15_FramesAfterWin ==
    /\ last.op = "animate"
    /\ ~animating
    /\ gameStatus = "won"
    /\ pieces > 0

\* C16: an accepted makeMove changes exactly one cell, from empty to the
\* player current before the call, and leaves the other 26 cells; no step
\* other than such a placement and a reset changes the occupancy.
C16_OnlyPlacementAndReset ==
    [][/\ (last' # last /\ last'.op \in {"click", "touchend"}
                        /\ last'.piece \in Markers) =>
             /\ gameStatus = "playing"
             /\ board[last'.cell] = "null"
             /\ board' = [board EXCEPT ![last'.cell] = currentPlayer]
       /\ board' # board =>
             \/ last'.op = "reset" /\ board' = EmptyBoard
             \/ /\ last'.op \in {"click", "touchend"}
                /\ last'.piece \in Markers
                /\ last' # last]_vars

\* O has placed a piece by a tap while other cells were occupied
C16_TapPlacedOne ==
    /\ last.op = "touchend"
    /\ last.piece = "O"
    /\ board[last.cell] = "O"
    /\ Cardinality(Occupied(board)) > 2

(***************************************************************************)
(* Turns, lines and termination                                            *)
(***************************************************************************)
\* C17: turns alternate starting with X: while the game is Playing the
\* current player is X exactly when the number of occupied cells is even,
\* and in every state X has as many pieces as O or one more.
C17_TurnsAlternate ==
    /\ gameStatus = "playing" =>
          (currentPlayer = "X" <=> Cardinality(Occupied(board)) % 2 = 0)
    /\ Count(board, "X") - Count(board, "O") \in {0, 1}

\* O is to move in a game that has gone on for more than one round
C17_OToMove ==
    /\ gameStatus = "playing"
    /\ currentPlayer = "O"
    /\ Count(board, "X") = Count(board, "O") + 1
    /\ Count(board, "O") >= 2

\* C18: while the game is Playing no line of the board is held by one
\* player; when it is Won the current player holds a line.
C18_StatusMatchesLines ==
    /\ gameStatus = "playing" =>
          \A l \in Lines, p \in Markers : \E c \in l : board[c] # p
    /\ gameStatus = "won" =>
          \E l \in Lines : \A c \in l : board[c] = currentPlayer

\* a game still Playing with only two cells left
C18_LongGameStillPlaying ==
    /\ gameStatus = "playing"
    /\ Cardinality(Occupied(board)) = NumCells - 2

\* C19: every game terminates: while valid selections keep arriving a game
\* that is Playing is eventually Won or Draw, no state is Playing with a
\* full board, and no game takes more than 27 placements.
C19_GameTerminates ==
    /\ (gameStatus = "playing") ~> (gameStatus \in {"won", "draw"})
    /\ [](gameStatus = "playing" => ~isBoardFull(board))
    /\ [](pieces <= NumCells)

\* a game has been won by a click on one of the last two cells
C19_LongGameEnded ==
    /\ last.op = "click"
    /\ last.piece \in Markers
    /\ gameStatus = "won"
    /\ Cardinality(Occupied(board)) >= NumCells - 1

\* C20: Board.pieces has one entry for each occupied cell; a successful
\* placePiece adds one entry, a failed one none, and reset leaves none.
C20_PiecesMatchBoard ==
    /\ [](pieces = Cardinality(Occupied(board)))
    /\ [][/\ (last'.op = "placePiece" /\ last'.piece \in Markers)
                => pieces' = pieces + 1
          /\ (last'.op = "placePiece" /\ last'.piece = "null")
                => pieces' = pieces
          /\ last'.op = "boardReset" => pieces' = 0]_vars

\* a refused placePiece on a board with at most one cell left, every piece
\* placed before it still listed
C20_RefusedKeepsPieces ==
    /\ last.op = "placePiece"
    /\ last.piece = "null"
    /\ pieces >= NumCells - 1
    /\ pieces = Cardinality(Occupied(board))

(***************************************************************************)
(* Player tracking                                                         *)
(***************************************************************************)
\* C21: after every makeMove and every reset the Player object names the
\* same current player as the Game: Player.getCurrentPlayer() equals
\* Game.currentPlayer.
C21_PlayerAgreesWithGame ==
    (PlacedByMove \/ last.op = "reset") => player.currentPlayer = currentPlayer

(***************************************************************************)
(* Gestures                                                                *)
(***************************************************************************)
\* C22: the click that follows a drag gesture (a press, a move beyond the
\* drag threshold, a release) is ignored by the click listener, whatever
\* timer callbacks ran before it: it places no piece.
C22_ClickAfterDragIgnored ==
    [][(drag = "dragEnd" /\ drag' = "idle")
          => board' = board /\ last'.piece = "none"]_vars

\* C23: no touchend of a pinch (two fingers have been down and not all
\* fingers have lifted since) selects a cell: it places no piece.
C23_PinchSelectsNothing ==
    [][(pinch /\ touches' < touches)
          => board' = board /\ last'.piece = "none"]_vars

=============================================================================
